---- MODULE Spec2Model ----
(***************************************************************************)
(* Model of local-llm-cli: the indexer (index_code.py), the CLI            *)
(* (llm_cli.py) and the /ask handler (app.py), sharing one persistent      *)
(* vector store ("chroma_db").                                             *)
(*                                                                         *)
(* Text is modelled as a sequence of one-character strings, so that        *)
(* slicing, endswith and concatenation are computed as Python computes     *)
(* them.                                                                   *)
(***************************************************************************)
EXTENDS Integers, Sequences, FiniteSets, TLC

VARIABLES
    fs,      \* the file system: project path -> directory, or NoDir
    store,   \* the vector store: collection name -> Absent, or a set of records
    ix,      \* the current / last run of index_code.main
    cli,     \* the current / last run of llm_cli.main
    api,     \* the last request handled by app.ask_code
    lc       \* a stepwise run of index_code.load_chunks

vars == <<fs, store, ix, cli, api, lc>>

(***************************************************************************)
(* Bounds.  MAX_BATCH_SIZE (500 in index_code.py:10) and the default       *)
(* chunk_size (800 in index_code.py:32) are scaled down so that several    *)
(* batches and several chunks per file occur on small inputs.              *)
(***************************************************************************)
MAX_BATCH_SIZE == 2

CHUNK_SIZE == 2

MaxLen == 3

MaxChunkSize == 3

Min(a, b) == IF a <= b THEN a ELSE b

(***************************************************************************)
(* Text helpers.                                                           *)
(***************************************************************************)
Alphabet == {"x", "y"}

\* str.endswith
EndsWith(s, suffix) ==
    /\ Len(s) >= Len(suffix)
    /\ SubSeq(s, Len(s) - Len(suffix) + 1, Len(s)) = suffix

\* str.startswith
StartsWith(s, prefix) ==
    /\ Len(s) >= Len(prefix)
    /\ SubSeq(s, 1, Len(prefix)) = prefix

\* s[i:j] for 0 <= i <= j: Python clamps the slice to the string
Slice(s, i, j) == SubSeq(s, Min(i, Len(s)) + 1, Min(j, Len(s)))

\* the file name of a relative path: what os.walk lists in `files`
RECURSIVE Basename(_)
Basename(rel) ==
    IF \E k \in 1..Len(rel) : rel[k] = "/"
    THEN Basename(Tail(rel))
    ELSE rel

\* range(start, stop, step), step > 0
RECURSIVE RangeOvershoot(_, _, _)
RangeOvershoot(start, stop, step) ==
    IF start > stop THEN <<>>
    ELSE <<start>> \o RangeOvershoot(start + step, stop, step)

RECURSIVE Range(_, _, _)
Range(start, stop, step) ==
    IF start >= stop THEN <<>>
    ELSE <<start>> \o Range(start + step, stop, step)

RECURSIVE Flatten(_)
Flatten(seqs) ==
    IF seqs = <<>> THEN <<>> ELSE Head(seqs) \o Flatten(Tail(seqs))

(***************************************************************************)
(* Directories.  A directory is its optional .gitignore (the lines of the  *)
(* file) and its files in os.walk order, each with its path relative to    *)
(* the root and its decoded content.                                       *)
(***************************************************************************)
\* a directory that does not exist (os.path.exists is false, os.walk is empty)
NoDir == [exists |-> FALSE, gitignore |-> [present |-> FALSE, lines |-> <<>>],
          files |-> <<>>]

\* the value None of load_gitignore
None == [none |-> TRUE, patterns |-> <<>>]

EXTENSIONS == << <<".", "j", "s">>, <<".", "j", "s", "o", "n">>, <<".", "m", "d">> >>

\* load_gitignore: None without a .gitignore, else the PathSpec of its lines
\* (PathSpec.from_lines drops empty lines)
load_gitignore(dir) ==
    IF ~dir.gitignore.present THEN None
    ELSE [none |-> FALSE,
          patterns |-> SelectSeq(dir.gitignore.lines, LAMBDA line : line # <<>>)]

\* One gitwildmatch pattern against a relative path, for the three pattern
\* shapes used here: "*<suffix>" (any file whose name ends with the suffix),
\* "<dir>/" (everything under that directory) and "<name>" (that file name).
PatternMatches(line, rel) ==
    IF Head(line) = "*" THEN EndsWith(Basename(rel), Tail(line))
    ELSE IF line[Len(line)] = "/" THEN StartsWith(rel, line)
    ELSE Basename(rel) = line

\* PathSpec.match_file
match_file(spec, rel) ==
    \E k \in 1..Len(spec.patterns) : PatternMatches(spec.patterns[k], rel)

is_ignored_never(rel_path, spec) == FALSE

\* is_ignored: the path relative to the root, matched by the spec
is_ignored(rel_path, spec) == match_file(spec, rel_path)

\* `if spec`: None is falsy, and so is a PathSpec with no pattern (__len__)
Truthy(spec) == ~spec.none /\ Len(spec.patterns) > 0

\* any(f.endswith(ext) for ext in EXTENSIONS)
IsTracked(f) == \E e \in 1..Len(EXTENSIONS) : EndsWith(f, EXTENSIONS[e])

\* the inner loop of load_chunks: for i in range(0, len(content), chunk_size)
chunk_file(content, chunk_size) ==
    LET starts == Range(0, Len(content), chunk_size)
    IN  [k \in 1..Len(starts) |-> Slice(content, starts[k], starts[k] + chunk_size)]

\* one iteration of `for f in files` in load_chunks: the chunks the file adds
file_chunks(file, spec, chunk_size) ==
    IF Truthy(spec) /\ is_ignored(file.rel, spec) THEN <<>>
    ELSE IF IsTracked(Basename(file.rel)) THEN chunk_file(file.content, chunk_size)
    ELSE <<>>

\* load_chunks as a function of the directory (os.walk over a missing
\* directory yields nothing)
load_chunks(dir, chunk_size) ==
    LET spec == load_gitignore(dir)
    IN  Flatten([k \in 1..Len(dir.files) |->
                    file_chunks(dir.files[k], spec, chunk_size)])

(***************************************************************************)
(* load_chunks, one file of the walk at a time (index_code.py:32-54).      *)
(* lc.contrib records, per visited file, the chunks that file appended.    *)
(***************************************************************************)
NameJs == <<"a", ".", "j", "s">>

NameMd == <<"s", "/", "b", ".", "m", "d">>

NamePy == <<"c", ".", "p", "y">>

NameJson == <<"c", ".", "j", "s", "o", "n">>

Contents(n) == UNION {[1..m -> Alphabet] : m \in 0..n}

Repeat(ch, n) == [k \in 1..n |-> ch]

GitignoreFile(lines) == [present |-> TRUE, lines |-> lines]

NoGitignore == [present |-> FALSE, lines |-> <<>>]

\* the ignore files the walk is tried with
LcIgnoreFiles ==
    { NoGitignore,
      GitignoreFile(<<>>),
      GitignoreFile(<< <<"*", ".", "m", "d">> >>),
      GitignoreFile(<< <<"s", "/">> >>),
      GitignoreFile(<< <<>>, <<"*", ".", "p", "y">> >>),
      GitignoreFile(<< NameJs >>),
      GitignoreFile(<< <<"*", ".", "j", "s">>, <<"*", ".", "j", "s", "o", "n">> >>) }

\* the files the walk is tried with, in walk order: the root's files first
LcFileLists ==
    { <<>> } \cup
    { << [rel |-> NameJs, content |-> c1] >> : c1 \in Contents(MaxLen) } \cup
    { << [rel |-> NameJs, content |-> c1],
         [rel |-> r3, content |-> c3],
         [rel |-> NameMd, content |-> Repeat("y", n2)] >> :
         c1 \in Contents(MaxLen), n2 \in 0..MaxLen,
         r3 \in {NamePy, NameJson}, c3 \in {<<>>, <<"x", "y", "x">>} }

LcDirs ==
    { [exists |-> TRUE, gitignore |-> g, files |-> f] :
        g \in LcIgnoreFiles, f \in LcFileLists }

LcIdle ==
    [pc |-> "idle", dir |-> NoDir, size |-> CHUNK_SIZE, spec |-> None,
     k |-> 1, chunks |-> <<>>, contrib |-> <<>>]

\* lines 33-36: chunks = [], spec = load_gitignore(source_dir)
LcStart ==
    /\ lc.pc = "start"
    /\ lc' = [lc EXCEPT !.pc = "walk", !.spec = load_gitignore(lc.dir),
                        !.k = 1, !.chunks = <<>>, !.contrib = <<>>]
    /\ UNCHANGED <<fs, store, ix, cli, api>>

\* lines 40-52: one iteration of `for f in files`
LcVisitFile ==
    /\ lc.pc = "walk"
    /\ lc.k <= Len(lc.dir.files)
    /\ LET added == file_chunks(lc.dir.files[lc.k], lc.spec, lc.size)
       IN  lc' = [lc EXCEPT !.k = lc.k + 1,
                            !.chunks = lc.chunks \o added,
                            !.contrib = Append(lc.contrib, added)]
    /\ UNCHANGED <<fs, store, ix, cli, api>>

\* line 54: return chunks
LcReturn ==
    /\ lc.pc = "walk"
    /\ lc.k > Len(lc.dir.files)
    /\ lc' = [lc EXCEPT !.pc = "done"]
    /\ UNCHANGED <<fs, store, ix, cli, api>>

(***************************************************************************)
(* The vector store.  A collection is absent, or holds a set of records    *)
(* (id, document, embedding).                                              *)
(***************************************************************************)
Paths == {"/proj"}

\* hashlib.sha256(path.encode()).hexdigest(): distinct paths are given
\* distinct digests (collisions are not modelled)
get_hash(path) == <<"sha256", path>>

\* "project_index_" + path_hash[:10]
collection_name(path) == <<"project_index_", get_hash(path)>>

CollectionNames == {collection_name(p) : p \in Paths}

Absent == [exists |-> FALSE, records |-> {}]

Empty == [exists |-> TRUE, records |-> {}]

\* chroma_client.delete_collection raises when the collection is absent
delete_raises(st, name) == ~st[name].exists

delete_collection_noop(st, name) == st

\* the try/except around delete_collection: afterwards the name is free
delete_collection(st, name) ==
    IF delete_raises(st, name) THEN st ELSE [st EXCEPT ![name] = Absent]

\* chroma_client.get_or_create_collection
get_or_create_collection(st, name) ==
    IF st[name].exists THEN st ELSE [st EXCEPT ![name] = Empty]

\* f"id_{k}"
IdOf(k) == <<"id_", k>>

\* SentenceTransformer.encode of one text: a function of the text
Embed(text) == [vec |-> text]

\* model.encode(chunks).tolist(): one vector per chunk, in order
encode(chunks) == [k \in 1..Len(chunks) |-> Embed(chunks[k])]

batch_ids_local(i, n) == [j \in 1..n |-> IdOf(j - 1)]

\* [f"id_{i+j}" for j in range(len(batch_docs))]
batch_ids(i, n) == [j \in 1..n |-> IdOf(i + (j - 1))]

\* lines 60-62: the arguments of one collection.add call
make_batch(documents, embeddings, i) ==
    LET batch_docs == Slice(documents, i, i + MAX_BATCH_SIZE)
        batch_embs == Slice(embeddings, i, i + MAX_BATCH_SIZE)
    IN  [documents |-> batch_docs, embeddings |-> batch_embs,
         ids |-> batch_ids(i, Len(batch_docs))]

\* collection.add: the records are stored under their ids; an id the
\* collection already holds is not stored again
collection_add(coll, batch) ==
    LET new == {[id |-> batch.ids[j], document |-> batch.documents[j],
                 embedding |-> batch.embeddings[j]] : j \in 1..Len(batch.ids)}
    IN  [coll EXCEPT !.records =
            coll.records \cup {r \in new : \A q \in coll.records : q.id # r.id}]

\* the directories a project path is tried with
BigDir ==
    [exists |-> TRUE, gitignore |-> NoGitignore,
     files |-> << [rel |-> NameJs, content |-> <<"x", "y", "x", "y", "x", "y", "x">>],
                  [rel |-> NamePy, content |-> <<"x", "x">>],
                  [rel |-> NameMd, content |-> <<"y", "y">>] >>]

SmallDir ==
    [exists |-> TRUE, gitignore |-> GitignoreFile(<< <<"*", ".", "m", "d">> >>),
     files |-> << [rel |-> NameJs, content |-> <<"y", "x", "x", "y">>],
                  [rel |-> NameMd, content |-> <<"y", "y", "y">>] >>]

BareDir ==
    [exists |-> TRUE, gitignore |-> NoGitignore,
     files |-> << [rel |-> NamePy, content |-> <<"x", "y">>] >>]

MainDirs == {BigDir, SmallDir, BareDir}

(***************************************************************************)
(* index_code.main (index_code.py:71-98), one store or model call per      *)
(* step.  A run is started by the CLI (run_indexer) or from a shell.       *)
(***************************************************************************)
IxIdle ==
    [pc |-> "idle", path |-> "/proj", prior |-> -1,
     chunks |-> <<>>, embeddings |-> <<>>, b |-> 1, adds |-> <<>>,
     error |-> "none"]

\* what the run finds under its collection name when it starts: the number
\* of records, -1 when there is no collection
PriorOf(coll) == IF ~coll.exists THEN -1 ELSE Cardinality(coll.records)

IxStart(path) ==
    [IxIdle EXCEPT !.pc = "delete", !.path = path,
                   !.prior = PriorOf(store[collection_name(path)])]

IxFree == ix.pc \in {"idle", "done", "failed"}

\* `python index_code.py <path>` typed in a shell.  Runs on one store are
\* serialized: none starts while another is in progress.
ShellRunIndexer(p) ==
    /\ IxFree
    /\ cli.pc # "wait_indexer"
    /\ ix' = IxStart(p)
    /\ UNCHANGED <<fs, store, cli, api, lc>>

\* lines 82-86: delete the collection; its absence is not an error
IxDelete ==
    /\ ix.pc = "delete"
    /\ store' = delete_collection(store, collection_name(ix.path))
    /\ ix' = [ix EXCEPT !.pc = "create"]
    /\ UNCHANGED <<fs, cli, api, lc>>

\* line 88
IxCreate ==
    /\ ix.pc = "create"
    /\ store' = get_or_create_collection(store, collection_name(ix.path))
    /\ ix' = [ix EXCEPT !.pc = "load"]
    /\ UNCHANGED <<fs, cli, api, lc>>

\* line 92
IxLoadChunks ==
    /\ ix.pc = "load"
    /\ ix' = [ix EXCEPT !.pc = "encode",
                        !.chunks = load_chunks(fs[ix.path], CHUNK_SIZE)]
    /\ UNCHANGED <<fs, store, cli, api, lc>>

\* line 93: the embedding model may fail; the exception ends the run
IxEncode ==
    /\ ix.pc = "encode"
    /\ \E ok \in BOOLEAN :
         ix' = IF ok
               THEN [ix EXCEPT !.pc = "add", !.embeddings = encode(ix.chunks),
                               !.b = 1, !.adds = <<>>]
               ELSE [ix EXCEPT !.pc = "failed", !.error = "embed"]
    /\ UNCHANGED <<fs, store, cli, api, lc>>

\* the values of i in add_to_collection_in_batches
BatchStarts(total) == Range(0, total, MAX_BATCH_SIZE)

\* lines 59-68: one iteration of the batch loop; collection.add may fail,
\* and the exception ends the run
IxAddBatch ==
    /\ ix.pc = "add"
    /\ ix.b <= Len(BatchStarts(Len(ix.chunks)))
    /\ LET name == collection_name(ix.path)
           batch == make_batch(ix.chunks, ix.embeddings,
                               BatchStarts(Len(ix.chunks))[ix.b])
       IN  \E ok \in BOOLEAN :
             IF ok
             THEN /\ store' = [store EXCEPT ![name] = collection_add(store[name], batch)]
                  /\ ix' = [ix EXCEPT !.b = ix.b + 1, !.adds = Append(ix.adds, batch)]
             ELSE /\ store' = store
                  /\ ix' = [ix EXCEPT !.pc = "failed", !.error = "add"]
    /\ UNCHANGED <<fs, cli, api, lc>>

\* lines 97-98: the loop is over, the run ends with status 0
IxFinish ==
    /\ ix.pc = "add"
    /\ ix.b > Len(BatchStarts(Len(ix.chunks)))
    /\ ix' = [ix EXCEPT !.pc = "done"]
    /\ UNCHANGED <<fs, store, cli, api, lc>>

\* the user edits, creates or removes a project directory
EditProject(p, d) ==
    /\ d # fs[p]
    /\ fs' = [fs EXCEPT ![p] = d]
    /\ UNCHANGED <<store, ix, cli, api, lc>>

(***************************************************************************)
(* app.ask_code (app.py:23-51), the /ask handler.                          *)
(***************************************************************************)
\* chroma_client.get_collection raises when the collection is absent
get_collection_raises(st, name) == ~st[name].exists

ApiNone ==
    [path |-> "/proj", absent |-> FALSE, status |-> 0, body |-> "none",
     generated |-> FALSE]

\* The handler's answer.  chat_ok: whether ollama.chat returns; when it
\* raises, FastAPI answers 500.
ask_code(st, path, chat_ok) ==
    LET name == collection_name(path)
        base == [ApiNone EXCEPT !.path = path, !.absent = ~st[name].exists]
    IN  IF get_collection_raises(st, name)
        THEN [base EXCEPT !.status = 200, !.body = "error"]
        ELSE IF chat_ok
        THEN [base EXCEPT !.status = 200, !.body = "response", !.generated = TRUE]
        ELSE [base EXCEPT !.status = 500, !.generated = TRUE]

\* a request to /ask from any HTTP client
ApiAsk(p, chat_ok) ==
    /\ api' = ask_code(store, p, chat_ok)
    /\ UNCHANGED <<fs, store, ix, cli, lc>>

(***************************************************************************)
(* llm_cli.main (llm_cli.py:162-201).  cli.pc is the position in main;     *)
(* the other fields record what the run did and how it ended.              *)
(***************************************************************************)
CliIdle ==
    [pc |-> "idle", path |-> "/proj", local |-> FALSE, reindex |-> FALSE,
     exit_code |-> 0, cause |-> "none", reported |-> FALSE, crashed |-> FALSE,
     indexer |-> "none", ctx |-> "none",
     transport |-> "none", chat_called |-> FALSE, reply |-> "none"]

\* exit(code) or the return of main (code 0), after the fields of c are set
Exited(c, code, cause) == [c EXCEPT !.pc = "exited", !.exit_code = code, !.cause = cause]

\* a diagnostic printed in red
Report(c) == [c EXCEPT !.reported = TRUE]

\* an exception nothing catches: traceback, exit status 1
Crash(c, cause) == [Exited(c, 1, cause) EXCEPT !.crashed = TRUE]

\* the command line: --path, --local, --reindex
CliInvoke(p, local, reindex) ==
    /\ cli.pc \in {"idle", "exited"}
    /\ cli' = [CliIdle EXCEPT !.pc = "main", !.path = p, !.local = local,
                              !.reindex = reindex]
    /\ UNCHANGED <<fs, store, ix, api, lc>>

\* lines 177-180
MainCheckPath ==
    /\ cli.pc = "main"
    /\ cli' = IF ~fs[cli.path].exists
              THEN Exited(Report(cli), 1, "path_missing")
              ELSE [cli EXCEPT !.pc = "run_indexer"]
    /\ UNCHANGED <<fs, store, ix, api, lc>>

is_path_indexed_exists(st, path) == st[collection_name(path)].exists

\* is_path_indexed: the collection exists and collection.get(limit=1)
\* returns an id
is_path_indexed(st, path) ==
    LET name == collection_name(path)
    IN  IF get_collection_raises(st, name) THEN FALSE
        ELSE Cardinality(st[name].records) > 0

\* line 184: the step after run_indexer
AfterIndexer(c) == [c EXCEPT !.pc = IF c.local THEN "check_ollama" ELSE "remote_chat"]

\* run_indexer up to subprocess.run (lines 150-156).  The subprocess is
\* started when no other indexing run is in progress.
RunIndexer ==
    /\ cli.pc = "run_indexer"
    /\ IF ~cli.reindex /\ is_path_indexed(store, cli.path)
       THEN /\ cli' = AfterIndexer([cli EXCEPT !.indexer = "skipped"])
            /\ ix' = ix
       ELSE /\ IxFree
            /\ cli' = [cli EXCEPT !.pc = "wait_indexer", !.indexer = "started"]
            /\ ix' = IxStart(cli.path)
    /\ UNCHANGED <<fs, store, api, lc>>

\* subprocess.run(check=True) returns, or raises CalledProcessError
\* (lines 156-159).  While the CLI waits, the run in ix is its subprocess.
IndexerReturned ==
    /\ cli.pc = "wait_indexer"
    /\ ix.pc \in {"done", "failed"}
    /\ cli' = IF ix.pc = "done"
              THEN AfterIndexer(cli)
              ELSE Exited(Report(cli), 1, "indexing_failed")
    /\ UNCHANGED <<fs, store, ix, api, lc>>

\* line 185: is_ollama_running
CheckOllama ==
    /\ cli.pc = "check_ollama"
    /\ \E running \in BOOLEAN :
         cli' = [cli EXCEPT !.pc = IF running THEN "ensure_model" ELSE "try_start"]
    /\ UNCHANGED <<fs, store, ix, api, lc>>

\* lines 188-189 with try_start_ollama: on failure main returns
TryStartOllama ==
    /\ cli.pc = "try_start"
    /\ \E outcome \in {"not_installed", "popen_error", "not_running", "started"} :
         cli' = IF outcome = "started"
                THEN [cli EXCEPT !.pc = "ensure_model"]
                ELSE Exited(Report(cli), 0, "ollama_unstartable")
    /\ UNCHANGED <<fs, store, ix, api, lc>>

\* line 190 with ensure_model_available: exit(1) when the tags cannot be
\* read or the pull fails
EnsureModel ==
    /\ cli.pc = "ensure_model"
    /\ \E outcome \in {"tags_error", "present", "pulled", "pull_failed"} :
         cli' = IF outcome \in {"present", "pulled"}
                THEN [cli EXCEPT !.pc = "get_context"]
                ELSE Exited(Report(cli), 1, "model_unavailable")
    /\ UNCHANGED <<fs, store, ix, api, lc>>

get_context_never_raises(st, path) == FALSE

\* get_context_from_embeddings raises RuntimeError when get_collection does
get_context_raises(st, path) == get_collection_raises(st, collection_name(path))

\* lines 192-198
GetContext ==
    /\ cli.pc = "get_context"
    /\ LET name == collection_name(cli.path)
           c == [cli EXCEPT !.ctx = IF store[name].exists THEN "found" ELSE "absent"]
       IN  cli' = IF get_context_raises(store, cli.path)
                  THEN Exited(Report(c), 0, "not_indexed")
                  ELSE [c EXCEPT !.pc = "local_chat"]
    /\ UNCHANGED <<fs, store, ix, api, lc>>

\* line 199 with stream_local_chat.  httpx.stream raises when the endpoint
\* is unreachable, and nothing catches it.  On a status other than 200 the
\* error message reads response.text of a streamed response that was not
\* read, which raises httpx.ResponseNotRead, uncaught as well.
LocalChat ==
    /\ cli.pc = "local_chat"
    /\ \E t \in {"unreachable", "bad_status", "ok"} :
         LET c == [cli EXCEPT !.chat_called = TRUE, !.transport = t]
         IN  cli' = IF t = "ok"
                    THEN Exited([c EXCEPT !.reply = "response"], 0, "answered")
                    ELSE Crash(c, "chat_failed")
    /\ UNCHANGED <<fs, store, ix, api, lc>>

\* line 201 with stream_remote_chat: every exception is caught and
\* printed; a 200 reply prints response.json().get("response")
RemoteChat ==
    /\ cli.pc = "remote_chat"
    /\ \E reachable \in BOOLEAN, chat_ok \in BOOLEAN :
         LET r == ask_code(store, cli.path, chat_ok)
             c == [cli EXCEPT !.chat_called = TRUE]
         IN  IF ~reachable
             THEN /\ cli' = Exited(Report([c EXCEPT !.transport = "unreachable"]),
                                   0, "chat_failed")
                  /\ api' = api
             ELSE /\ api' = r
                  /\ cli' = IF r.status # 200
                            THEN Exited(Report([c EXCEPT !.transport = "bad_status"]),
                                        0, "chat_failed")
                            ELSE Exited([c EXCEPT !.transport = "ok", !.reply = r.body],
                                        0, "answered")
    /\ UNCHANGED <<fs, store, ix, lc>>

(***************************************************************************)
(* Specifications.                                                         *)
(***************************************************************************)
InitPipeline ==
    /\ fs \in [Paths -> {BigDir, NoDir}]
    /\ store = [n \in CollectionNames |-> Absent]
    /\ ix = IxIdle
    /\ cli = CliIdle
    /\ api = ApiNone

Init ==
    /\ InitPipeline
    /\ lc = LcIdle

Next ==
    \/ \E p \in Paths : ShellRunIndexer(p)
    \/ IxDelete
    \/ IxCreate
    \/ IxLoadChunks
    \/ IxEncode
    \/ IxAddBatch
    \/ IxFinish
    \/ \E p \in Paths, d \in MainDirs \cup {NoDir} : EditProject(p, d)
    \/ \E p \in Paths, chat_ok \in BOOLEAN : ApiAsk(p, chat_ok)
    \/ \E p \in Paths, local \in BOOLEAN, reindex \in BOOLEAN : CliInvoke(p, local, reindex)
    \/ MainCheckPath
    \/ RunIndexer
    \/ IndexerReturned
    \/ CheckOllama
    \/ TryStartOllama
    \/ EnsureModel
    \/ GetContext
    \/ LocalChat
    \/ RemoteChat

Spec == Init /\ [][Next]_vars

\* load_chunks alone, over the directories and chunk sizes of LcDirs
InitChunks ==
    /\ fs = [p \in Paths |-> NoDir]
    /\ store = [n \in CollectionNames |-> Absent]
    /\ ix = IxIdle
    /\ cli = CliIdle
    /\ api = ApiNone
    /\ \E d \in LcDirs, c \in 1..MaxChunkSize :
         lc = [LcIdle EXCEPT !.pc = "start", !.dir = d, !.size = c]

NextChunks ==
    \/ LcStart
    \/ LcVisitFile
    \/ LcReturn

SpecChunks == InitChunks /\ [][NextChunks]_vars

(***************************************************************************)
(* Properties.                                                             *)
(***************************************************************************)
CeilDiv(n, d) == (n + d - 1) \div d

TheCollection == store[collection_name(ix.path)]

\* C1: when an indexing run fails (embedding or store write), the
\* collection of its path is absent or empty afterwards, so that
\* is_path_indexed does not report the path as indexed.
C1_FailedRunLeavesNoRecords ==
    ix.pc = "failed" =>
        /\ ~TheCollection.exists \/ TheCollection.records = {}
        /\ ~is_path_indexed(store, ix.path)

\* C2: a completed run over N chunks has issued exactly ceil(N/B)
\* collection.add calls, each with at most B records; the ids are unique
\* over the run; the batches' documents, in order, are the chunk sequence,
\* and their embeddings are the embeddings at the same indices.
C2_Batching ==
    ix.pc = "done" =>
        LET n == Len(ix.chunks)
            docs == Flatten([k \in 1..Len(ix.adds) |-> ix.adds[k].documents])
            embs == Flatten([k \in 1..Len(ix.adds) |-> ix.adds[k].embeddings])
            ids == Flatten([k \in 1..Len(ix.adds) |-> ix.adds[k].ids])
        IN  /\ Len(ix.adds) = CeilDiv(n, MAX_BATCH_SIZE)
            /\ \A k \in 1..Len(ix.adds) :
                 /\ Len(ix.adds[k].documents) <= MAX_BATCH_SIZE
                 /\ Len(ix.adds[k].ids) = Len(ix.adds[k].documents)
                 /\ Len(ix.adds[k].embeddings) = Len(ix.adds[k].documents)
            /\ \A a, b \in 1..Len(ids) : a # b => ids[a] # ids[b]
            /\ docs = ix.chunks
            /\ Len(embs) = n
            /\ \A k \in 1..n : embs[k] = ix.embeddings[k]

\* a completed run with several add calls, the last one not full
C2_Witness ==
    /\ ix.pc = "done"
    /\ Len(ix.adds) >= 2
    /\ Len(ix.adds[Len(ix.adds)].ids) < MAX_BATCH_SIZE

\* the root's ignore file holds a pattern that matches the path
MatchedByIgnoreFile(dir, rel) ==
    /\ dir.gitignore.present
    /\ \E j \in 1..Len(dir.gitignore.lines) :
         /\ dir.gitignore.lines[j] # <<>>
         /\ PatternMatches(dir.gitignore.lines[j], rel)

HasTrackedExtension(rel) ==
    \E e \in 1..Len(EXTENSIONS) : EndsWith(rel, EXTENSIONS[e])

\* C3: every indexed file (tracked extension, not ignored) with content of
\* length L yields ceil(L/C) chunks, each of length C except possibly the
\* last, none empty, whose concatenation in order is the content.
C3_Chunking ==
    \A k \in 1..Len(lc.contrib) :
        LET file == lc.dir.files[k]
            ch == lc.contrib[k]
        IN  (HasTrackedExtension(file.rel) /\ ~MatchedByIgnoreFile(lc.dir, file.rel)) =>
              /\ Len(ch) = CeilDiv(Len(file.content), lc.size)
              /\ \A j \in 1..Len(ch) :
                   /\ Len(ch[j]) > 0
                   /\ Len(ch[j]) <= lc.size
                   /\ j < Len(ch) => Len(ch[j]) = lc.size
              /\ Flatten(ch) = file.content

\* an indexed file of several chunks whose length is a multiple of the
\* chunk size, after the walk has returned
C3_Witness ==
    /\ lc.pc = "done"
    /\ \E k \in 1..Len(lc.contrib) :
         LET file == lc.dir.files[k]
         IN  /\ HasTrackedExtension(file.rel)
             /\ ~MatchedByIgnoreFile(lc.dir, file.rel)
             /\ Len(file.content) > lc.size
             /\ Len(file.content) % lc.size = 0
             /\ Len(lc.contrib[k]) >= 2

\* C4: run_indexer with force = false on a collection that exists and
\* holds a record changes neither the store nor the indexer and starts no
\* run; in every other case it starts an indexing run for the path.
C4_SkipOrIndex ==
    [][ (cli.pc = "run_indexer" /\ cli'.pc # "run_indexer") =>
          LET coll == store[collection_name(cli.path)]
          IN  IF ~cli.reindex /\ coll.exists /\ coll.records # {}
              THEN /\ store' = store
                   /\ ix' = ix
                   /\ cli'.pc # "wait_indexer"
                   /\ cli'.indexer = "skipped"
              ELSE /\ cli'.pc = "wait_indexer"
                   /\ cli'.indexer = "started"
                   /\ ix'.pc = "delete"
                   /\ ix'.path = cli.path ]_vars

\* run_indexer has returned without indexing, over a non-empty collection
C4_Witness ==
    /\ cli.indexer = "skipped"
    /\ cli.pc \in {"check_ollama", "remote_chat"}
    /\ ~cli.reindex
    /\ store[collection_name(cli.path)].records # {}

\* C5: when an indexing run completes, the collection of its path holds
\* exactly one record per chunk of that run and nothing else; and the
\* delete step leaves no collection, whether or not one existed before.
C5_LatestRunOnly ==
    /\ ix.pc = "done" =>
         /\ TheCollection.exists
         /\ TheCollection.records =
              {[id |-> IdOf(k - 1), document |-> ix.chunks[k],
                embedding |-> Embed(ix.chunks[k])] : k \in 1..Len(ix.chunks)}
         /\ Cardinality(TheCollection.records) = Len(ix.chunks)
    /\ ix.pc = "create" => ~TheCollection.exists

\* a run has completed over a collection that held more records than the
\* run has chunks
C5_Witness ==
    /\ ix.pc = "done"
    /\ ix.prior > Len(ix.chunks)
    /\ Len(ix.chunks) > 0

SetupFailures ==
    {"path_missing", "model_unavailable", "ollama_unstartable", "indexing_failed"}

\* C6: the CLI ends with a non-zero exit status on every unrecoverable
\* setup failure.
C6_SetupFailureExitsNonZero ==
    (cli.pc = "exited" /\ cli.cause \in SetupFailures) => cli.exit_code # 0

\* C7: when the chat endpoint is unreachable or answers with a non-success
\* status, the failure is reported and no exception goes uncaught.
C7_TransportFailureReported ==
    (cli.pc = "exited" /\ cli.transport \in {"unreachable", "bad_status"}) =>
        (cli.reported /\ ~cli.crashed)

\* C8: building the context for a path with no collection fails with
\* NotIndexed and the generation transport is not called, in the CLI and
\* in the /ask handler.
C8_NotIndexedNoGeneration ==
    /\ cli.ctx = "absent" =>
         /\ cli.pc = "exited"
         /\ cli.cause = "not_indexed"
         /\ cli.reported
         /\ ~cli.chat_called
         /\ cli.transport = "none"
    /\ api.absent =>
         /\ api.body = "error"
         /\ ~api.generated

\* both callers have met a path with no collection
C8_Witness ==
    /\ cli.pc = "exited"
    /\ cli.ctx = "absent"
    /\ api.absent
    /\ api.status = 200

\* C9: in remote mode, when /ask answers {error}, the CLI prints the
\* error as a diagnostic.
C9_RemoteErrorSurfaced ==
    (cli.pc = "exited" /\ cli.reply = "error") => cli.reported

\* C10: a file matched by a pattern of the ignore file contributes no
\* chunk; an unmatched file with a tracked extension contributes ceil(L/C)
\* chunks; a file with no tracked extension contributes none.  Without an
\* ignore file nothing is matched.
C10_IgnoreAndExtensions ==
    \A k \in 1..Len(lc.contrib) :
        LET file == lc.dir.files[k]
            n == Len(lc.contrib[k])
            matched == MatchedByIgnoreFile(lc.dir, file.rel)
        IN  /\ matched => n = 0
            /\ (~matched /\ HasTrackedExtension(file.rel)) =>
                  n = CeilDiv(Len(file.content), lc.size)
            /\ ~HasTrackedExtension(file.rel) => n = 0
            /\ ~lc.dir.gitignore.present => ~matched

\* the walk has passed an ignored file with a tracked extension and
\* content, and an unmatched tracked file with content
C10_Witness ==
    /\ lc.pc = "done"
    /\ lc.dir.gitignore.present
    /\ \E k \in 1..Len(lc.contrib) :
         /\ MatchedByIgnoreFile(lc.dir, lc.dir.files[k].rel)
         /\ HasTrackedExtension(lc.dir.files[k].rel)
         /\ Len(lc.dir.files[k].content) > 0
    /\ \E k \in 1..Len(lc.contrib) :
         /\ ~MatchedByIgnoreFile(lc.dir, lc.dir.files[k].rel)
         /\ Len(lc.contrib[k]) > 0

====
